---- MODULE Spec2Model ----
(***************************************************************************)
(* Model of validate_filter_ip.py: a polling loop that probes one IPv4     *)
(* target, dampens the alive/dead verdict with two counters and keeps a    *)
(* /31 entry for the target in the prefix list SCRIPTED_ROUTE_FILTER.      *)
(* Strings are sequences of one-character strings, so that split(), int()  *)
(* and str() are computed rather than assumed.                             *)
(***************************************************************************)
EXTENDS Integers, Sequences, FiniteSets, TLC

\* ------------------------------------------------------------------ bounds
MaxD == 3
MaxIter == 6
MaxInitEntries == 2
MaxExternal == 1

\* ------------------------------------------------------- string primitives
Digits == <<"0", "1", "2", "3", "4", "5", "6", "7", "8", "9">>

IsDigit(c) == \E i \in 1..Len(Digits) : Digits[i] = c

DigitVal(c) == (CHOOSE i \in 1..Len(Digits) : Digits[i] = c) - 1

\* Python str(n) for n >= 0
RECURSIVE str(_)
str(n) == IF n < 10 THEN <<Digits[n + 1]>>
          ELSE str(n \div 10) \o <<Digits[(n % 10) + 1]>>

\* Python int(s) for a non-empty string of decimal digits
RECURSIVE int(_)
int(s) == IF Len(s) = 0 THEN 0
          ELSE int(SubSeq(s, 1, Len(s) - 1)) * 10 + DigitVal(s[Len(s)])

\* Python s.split(sep): never empty, "" splits to [""]
RECURSIVE SplitAcc(_, _, _, _)
SplitAcc(s, sep, cur, acc) ==
    IF Len(s) = 0 THEN Append(acc, cur)
    ELSE IF Head(s) = sep THEN SplitAcc(Tail(s), sep, <<>>, Append(acc, cur))
    ELSE SplitAcc(Tail(s), sep, Append(cur, Head(s)), acc)

Split(s, sep) == SplitAcc(s, sep, <<>>, <<>>)

Contains(s, c) == \E i \in 1..Len(s) : s[i] = c

Slash31 == <<"/", "3", "1">>

\* ------------------------------------------------------- network_s31 etc.
\* socket.inet_pton(AF_INET, .): four dot-separated decimal fields, each
\* 1..3 digits, no leading zero, value at most 255
OctetOkNoRange(p) ==
    /\ Len(p) >= 1
    /\ \A i \in 1..Len(p) : IsDigit(p[i])
    /\ (Len(p) > 1 => p[1] # "0")

OctetOk(p) ==
    /\ Len(p) >= 1
    /\ Len(p) <= 3
    /\ \A i \in 1..Len(p) : IsDigit(p[i])
    /\ (Len(p) > 1 => p[1] # "0")
    /\ int(p) <= 255

is_valid_ipv4_address(address) ==
    LET parts == Split(address, ".")
    IN  /\ Len(parts) = 4
        /\ \A i \in 1..4 : OctetOk(parts[i])

\* line 220
LastOctetOdd(n) == n % 2 = 1

PairBaseSame(n) == n

\* line 221: int(parts[3])-1
PairBase(n) == n - 1

network_s31(address) ==
    IF Contains(address, ":") THEN [kind |-> "exit_ipv6", val |-> <<>>]
    ELSE IF ~is_valid_ipv4_address(address)
         THEN [kind |-> "exit_invalid", val |-> <<>>]
    ELSE LET parts == Split(address, ".")
         IN  IF LastOctetOdd(int(parts[4]))
             THEN [kind |-> "ok",
                   val |-> parts[1] \o <<".">> \o parts[2] \o <<".">> \o parts[3]
                           \o <<".">> \o str(PairBase(int(parts[4]))) \o Slash31]
             ELSE [kind |-> "ok", val |-> address \o Slash31]

Dotted(a, b, c, d) ==
    str(a) \o <<".">> \o str(b) \o <<".">> \o str(c) \o <<".">> \o str(d)

\* ------------------------------------------------------------- checkICMP
NL == "\n"

NonEmpty(lines) == SelectSeq(lines, LAMBDA l : Len(l) > 0)

\* getLatency: the value returned, or the IndexError an index out of range
\* raises
getLatency(output) ==
    LET outputLines == Split(output, NL)
        kept == NonEmpty(outputLines)
    IN  IF Len(kept) = 0 THEN [kind |-> "IndexError", val |-> <<>>]
        ELSE LET lastNonEmpty == kept[Len(kept)]
                 fields == Split(lastNonEmpty, "=")
             IN  IF Len(fields) < 2 THEN [kind |-> "IndexError", val |-> <<>>]
                 ELSE LET timingStats == Split(fields[2], "/")
                      IN  IF Len(timingStats) < 2
                          THEN [kind |-> "IndexError", val |-> <<>>]
                          ELSE [kind |-> "ok",
                                val |-> timingStats[2] \o <<" ", "m", "s">>]

\* isAlive: returncode and stdout are what the ping process produced
isAlive(returncode, stdout) ==
    LET result == (returncode = 0)
        output == IF returncode = 0 THEN stdout ELSE <<>>
    IN  IF Len(output) > 0
        THEN LET latency == getLatency(output)
             IN  IF latency.kind = "ok"
                 THEN [kind |-> "ok", result |-> result, latency |-> latency.val]
                 ELSE [kind |-> latency.kind, result |-> result, latency |-> <<>>]
        ELSE [kind |-> "ok", result |-> result, latency |-> <<"0">>]

\* --------------------------------------------------------- the rule store
\* The prefix list is a sequence of entries [prefix, seqno] in sequence
\* number order; a list without entries does not exist on the switch.
MaxOf(S) == CHOOSE x \in S : \A y \in S : y <= x

Seqnos(entries) == {entries[i].seqno : i \in 1..Len(entries)}

Matching(entries, prefix) ==
    {i \in 1..Len(entries) : entries[i].prefix = prefix}

\* reply to 'show ip prefix-list NAME'
ShowPrefixList(entries) ==
    [has_key |-> Len(entries) > 0, ipPrefixEntries |-> entries]

\* effect of 'ip prefix-list NAME permit PREFIX': a new entry at the end
PermitEntry(entries, prefix) ==
    Append(entries,
           [prefix |-> prefix,
            seqno |-> IF Len(entries) = 0 THEN 1 ELSE MaxOf(Seqnos(entries)) + 1])

\* effect of 'no ip prefix-list NAME seq N'
NoSeq(entries, n) == SelectSeq(entries, LAMBDA e : e.seqno # n)

FoundSeqnoLast(entries, i) == entries[Len(entries)].seqno

FoundSeqno(entries, i) == entries[i].seqno

\* check_filter on a reply: result.pop() takes entries from the end, the
\* first match is returned
check_filter(net, reply) ==
    LET entries == reply.ipPrefixEntries
        hits == Matching(entries, net)
    IN  IF reply.has_key /\ hits # {}
        THEN <<TRUE, FoundSeqno(entries, MaxOf(hits))>>
        ELSE <<FALSE, 0>>

\* ------------------------------------------------------------------ state
VARIABLES
    pc,              \* position of main()
    address,         \* args.host[0]
    octets,          \* the numbers address was written from, <<>> if none
    dampening,       \* args.dampening
    net31,           \* network_s31(args.host[0])
    wasAlive, dampeningDead, dampeningAlive,
    alive,           \* result of the last isAlive()
    filtered, seqno, \* result of the last check_filter()
    listing,         \* entries of the reply the last check_filter() read
    prefixList,      \* entries of SCRIPTED_ROUTE_FILTER on the switch
    extCount,        \* out-of-band changes of the prefix list so far
    history,         \* outcomes processed so far, "R" or "U"
    upHist,          \* wasAlive before each processed outcome
    emits,           \* branch taken for each outcome: BecameDead, BecameAlive, none
    events           \* store calls and syslog messages of the current iteration

vars == <<pc, address, octets, dampening, net31, wasAlive, dampeningDead,
          dampeningAlive, alive, filtered, seqno, listing, prefixList,
          extCount, history, upHist, emits, events>>

config == <<address, octets, dampening>>
counters == <<wasAlive, dampeningDead, dampeningAlive>>
ghost == <<history, upHist, emits>>

\* ----------------------------------------------------------------- inputs
\* strings that are not four dot-separated octets in 0..255
BadTargets ==
    { <<":", ":", "1">>,
      Dotted(10, 0, 0, 5) \o <<":", "8", "0">>,
      <<"1", "0", ".", "0", ".", "5">>,
      Dotted(10, 0, 0, 5) \o <<".", "1">>,
      Dotted(10, 0, 0, 256),
      Dotted(10, 0, 300, 5),
      <<"1", "0", ".", "0", ".", "0", ".">>,
      <<"1", "0", ".", ".", "0", ".", "5">>,
      <<"1", "0", ".", "0", ".", "0", ".", "x">>,
      <<"h", "o", "s", "t">>,
      <<>> }

BadInputs == { [text |-> t, octets |-> <<>>] : t \in BadTargets }

OctetInputs(A, B, C, N) ==
    { [text |-> Dotted(a, b, c, n), octets |-> <<a, b, c, n>>] :
        a \in A, b \in B, c \in C, n \in N }

TargetInputs == OctetInputs({10}, {0}, {0}, {5}) \cup BadInputs

AddrInputs ==
    OctetInputs({10, 192}, {0, 168}, {0, 255},
                {0, 1, 4, 5, 9, 10, 99, 100, 254, 255}) \cup BadInputs

StorePrefixes == { Dotted(10, 0, 0, 4) \o Slash31, Dotted(10, 0, 0, 6) \o Slash31 }

InitLists ==
    UNION { { [i \in 1..n |-> [prefix |-> f[i], seqno |-> i]] :
              f \in [1..n -> StorePrefixes] } : n \in 0..MaxInitEntries }

PingOutputs ==
    { <<>>,
      <<"r", "=", "1", "/", "2", "/", "3", NL>>,
      <<"r", "=", "1", NL>>,
      <<"l", "o", "s", "s", NL>>,
      <<NL>> }

InitWith(inputs) ==
    /\ pc = "start"
    /\ \E t \in inputs : address = t.text /\ octets = t.octets
    /\ dampening \in 1..MaxD
    /\ net31 = <<>>
    /\ wasAlive = TRUE
    /\ dampeningDead = 0
    /\ dampeningAlive = 0
    /\ alive = FALSE
    /\ filtered = FALSE
    /\ seqno = 0
    /\ listing = <<>>
    /\ prefixList \in InitLists
    /\ extCount = 0
    /\ history = <<>>
    /\ upHist = <<>>
    /\ emits = <<>>
    /\ events = <<>>

Init == InitWith(TargetInputs)

\* ---------------------------------------------------------------- startup
\* main line 291: net31 = network_s31(args.host[0]); exit() ends the process
ParseTarget ==
    /\ pc = "start"
    /\ LET r == network_s31(address)
       IN  IF r.kind = "ok"
           THEN net31' = r.val /\ pc' = "startup_check"
           ELSE net31' = net31 /\ pc' = r.kind
    /\ UNCHANGED <<config, counters, alive, filtered, seqno, listing,
                   prefixList, extCount, ghost, events>>

StartupBeliefKept(isFiltered, up) == up

\* main lines 294-297: an entry found at startup means the target is held dead
StartupBelief(isFiltered, up) == IF isFiltered /\ up THEN FALSE ELSE up

\* main lines 293-297
StartupCheck ==
    /\ pc = "startup_check"
    /\ LET r == check_filter(net31, ShowPrefixList(prefixList))
       IN  /\ filtered' = r[1]
           /\ seqno' = r[2]
           /\ wasAlive' = StartupBelief(r[1], wasAlive)
    /\ listing' = prefixList
    /\ events' = Append(events, [op |-> "list", arg |-> 0])
    /\ pc' = "probe"
    /\ UNCHANGED <<config, net31, dampeningDead, dampeningAlive, alive,
                   prefixList, extCount, ghost>>

\* ------------------------------------------------------- the polling loop
LoopPcs == {"probe", "decide", "dead_notify", "dead_add", "alive_notify",
            "alive_check", "alive_remove", "alive_removed", "sleep"}

StoreCallPcs == {"startup_check", "dead_add", "alive_check", "alive_remove"}

\* main line 305: one ping; an exception out of isAlive() is not caught.
\* The two flags bound the run: whether a probe that isAlive() reports as
\* reachable may still be drawn, and whether any other probe may.
ProbeStep(mayReach, mayFail) ==
    /\ pc = "probe"
    /\ \E returncode \in {0, 1}, stdout \in PingOutputs :
         LET r == isAlive(returncode, stdout)
         IN  /\ IF r.kind = "ok" /\ r.result THEN mayReach ELSE mayFail
             /\ IF r.kind = "ok"
                THEN alive' = r.result /\ pc' = "decide"
                ELSE alive' = alive /\ pc' = "probe_error"
    /\ events' = <<>>
    /\ UNCHANGED <<config, net31, counters, filtered, seqno, listing,
                   prefixList, extCount, ghost>>

\* at most MaxIter iterations, each recorded in history
Probe == ProbeStep(Len(history) < MaxIter, Len(history) < MaxIter)

\* any number of iterations; dampeningDead, which grows with every
\* Unreachable, is kept below MaxIter
ProbeForever == ProbeStep(TRUE, dampeningDead < MaxIter)

\* main line 311
ResetDead(dd) == 0

ResetAliveDecrement(da) == IF da > 0 THEN da - 1 ELSE 0

\* main line 341
ResetAlive(da) == 0

DeadReachedEarly(dd, d) == dd >= d - 1

DeadReachedLate(dd, d) == dd > d

\* main line 343
DeadReached(dd, d) == dd >= d

StillDampeningShort(da, d) == da < d - 1

\* main line 315
StillDampening(da, d) == da < d

\* main line 321
AliveReached(da, d) == da = d

\* what the outcome record becomes: one more element, or left alone
Log(seq, x, rec) == IF rec THEN Append(seq, x) ELSE seq

\* main lines 308-343: the counters and the choice of branch; rec tells
\* whether the outcome is recorded in history, upHist and emits
DecideStep(rec) ==
    /\ pc = "decide"
    /\ history' = Log(history, IF alive THEN "R" ELSE "U", rec)
    /\ upHist' = Log(upHist, wasAlive, rec)
    /\ IF alive
       THEN /\ dampeningDead' = ResetDead(dampeningDead)
            /\ IF ~wasAlive /\ StillDampening(dampeningAlive, dampening)
               THEN /\ dampeningAlive' = dampeningAlive + 1
                    /\ wasAlive' = wasAlive
                    /\ emits' = Log(emits, "none", rec)
                    /\ pc' = "sleep"
               ELSE IF ~wasAlive /\ AliveReached(dampeningAlive, dampening)
               THEN /\ wasAlive' = TRUE
                    /\ dampeningAlive' = 0
                    /\ emits' = Log(emits, "BecameAlive", rec)
                    /\ pc' = "alive_notify"
               ELSE /\ UNCHANGED <<wasAlive, dampeningAlive>>
                    /\ emits' = Log(emits, "none", rec)
                    /\ pc' = "sleep"
       ELSE /\ dampeningDead' = dampeningDead + 1
            /\ dampeningAlive' = ResetAlive(dampeningAlive)
            /\ wasAlive' = wasAlive
            /\ IF wasAlive /\ DeadReached(dampeningDead + 1, dampening)
               THEN emits' = Log(emits, "BecameDead", rec) /\ pc' = "dead_notify"
               ELSE emits' = Log(emits, "none", rec) /\ pc' = "sleep"
    /\ UNCHANGED <<config, net31, alive, filtered, seqno, listing,
                   prefixList, extCount, events>>

Decide == DecideStep(TRUE)

DecideForever == DecideStep(FALSE)

DeadNotifySilent ==
    /\ pc = "dead_notify"
    /\ pc' = "dead_add"
    /\ UNCHANGED <<config, net31, counters, alive, filtered, seqno, listing,
                   prefixList, extCount, ghost, events>>

\* main lines 344-346
DeadNotify ==
    /\ pc = "dead_notify"
    /\ events' = Append(events, [op |-> "notify", arg |-> 0])
    /\ pc' = "dead_add"
    /\ UNCHANGED <<config, net31, counters, alive, filtered, seqno, listing,
                   prefixList, extCount, ghost>>

\* main lines 349-352: add_filter(), then wasAlive = False
DeadAdd ==
    /\ pc = "dead_add"
    /\ prefixList' = PermitEntry(prefixList, net31)
    /\ events' = Append(events, [op |-> "insert", arg |-> 0])
    /\ wasAlive' = FALSE
    /\ pc' = "sleep"
    /\ UNCHANGED <<config, net31, dampeningDead, dampeningAlive, alive,
                   filtered, seqno, listing, extCount, ghost>>

\* main lines 325-327
AliveNotify ==
    /\ pc = "alive_notify"
    /\ events' = Append(events, [op |-> "notify", arg |-> 0])
    /\ pc' = "alive_check"
    /\ UNCHANGED <<config, net31, counters, alive, filtered, seqno, listing,
                   prefixList, extCount, ghost>>

\* main lines 330-331
AliveCheck ==
    /\ pc = "alive_check"
    /\ LET r == check_filter(net31, ShowPrefixList(prefixList))
       IN  /\ filtered' = r[1]
           /\ seqno' = r[2]
           /\ pc' = IF r[1] THEN "alive_remove" ELSE "sleep"
    /\ listing' = prefixList
    /\ events' = Append(events, [op |-> "list", arg |-> 0])
    /\ UNCHANGED <<config, net31, counters, alive, prefixList, extCount, ghost>>

\* main line 332: remove_filter(seqno, prefix_list_name)
AliveRemove ==
    /\ pc = "alive_remove"
    /\ prefixList' = NoSeq(prefixList, seqno)
    /\ events' = Append(events, [op |-> "remove", arg |-> seqno])
    /\ pc' = "alive_removed"
    /\ UNCHANGED <<config, net31, counters, alive, filtered, seqno, listing,
                   extCount, ghost>>

\* main lines 333-335
AliveNotifyRemoved ==
    /\ pc = "alive_removed"
    /\ events' = Append(events, [op |-> "notify", arg |-> 0])
    /\ pc' = "sleep"
    /\ UNCHANGED <<config, net31, counters, alive, filtered, seqno, listing,
                   prefixList, extCount, ghost>>

\* main line 358
Sleep ==
    /\ pc = "sleep"
    /\ pc' = "probe"
    /\ UNCHANGED <<config, net31, counters, alive, filtered, seqno, listing,
                   prefixList, extCount, ghost, events>>

\* main lines 359-360: KeyboardInterrupt anywhere inside the try block
Interrupt ==
    /\ pc \in LoopPcs
    /\ pc' = "interrupted"
    /\ UNCHANGED <<config, net31, counters, alive, filtered, seqno, listing,
                   prefixList, extCount, ghost, events>>

\* runCmds() raises: only KeyboardInterrupt is caught, the process ends
StoreCallFails ==
    /\ pc \in StoreCallPcs
    /\ pc' = "store_error"
    /\ UNCHANGED <<config, net31, counters, alive, filtered, seqno, listing,
                   prefixList, extCount, ghost, events>>

\* build_connection(): the socket is missing, exit() ends the process
StoreUnavailable ==
    /\ pc \in StoreCallPcs
    /\ pc' = "exit_nosocket"
    /\ UNCHANGED <<config, net31, counters, alive, filtered, seqno, listing,
                   prefixList, extCount, ghost, events>>

\* Another actor adds or removes an entry for the target's /31. An edit made
\* during a probe, a syslog call or the counter updates is seen by the
\* program exactly as one made just before its next rule-store call, so edits
\* are placed there and at the sleep.
ExternalPcs == StoreCallPcs \cup {"sleep"}

ExternalPermit ==
    /\ pc \in ExternalPcs
    /\ extCount < MaxExternal
    /\ prefixList' = PermitEntry(prefixList, net31)
    /\ extCount' = extCount + 1
    /\ UNCHANGED <<pc, config, net31, counters, alive, filtered, seqno,
                   listing, ghost, events>>

ExternalNoSeq ==
    /\ pc \in ExternalPcs
    /\ extCount < MaxExternal
    /\ \E i \in Matching(prefixList, net31) :
         prefixList' = NoSeq(prefixList, prefixList[i].seqno)
    /\ extCount' = extCount + 1
    /\ UNCHANGED <<pc, config, net31, counters, alive, filtered, seqno,
                   listing, ghost, events>>

Next ==
    \/ ParseTarget
    \/ StartupCheck
    \/ Probe
    \/ Decide
    \/ DeadNotify
    \/ DeadAdd
    \/ AliveNotify
    \/ AliveCheck
    \/ AliveRemove
    \/ AliveNotifyRemoved
    \/ Sleep
    \/ Interrupt
    \/ StoreCallFails
    \/ StoreUnavailable
    \/ ExternalPermit
    \/ ExternalNoSeq

Spec == Init /\ [][Next]_vars

\* The program alone with a working rule store: no out-of-band edit, no
\* failing store call, and at most one entry for the target's /31 at startup
InitNoFault ==
    /\ Init
    /\ LET r == network_s31(address)
       IN  r.kind = "ok" => Cardinality(Matching(prefixList, r.val)) <= 1

NextNoFault ==
    \/ ParseTarget
    \/ StartupCheck
    \/ Probe
    \/ Decide
    \/ DeadNotify
    \/ DeadAdd
    \/ AliveNotify
    \/ AliveCheck
    \/ AliveRemove
    \/ AliveNotifyRemoved
    \/ Sleep
    \/ Interrupt

SpecNoFault == InitNoFault /\ [][NextNoFault]_vars

\* The polling loop running for ever under a working rule store, without
\* interrupt and without out-of-band edit; the loop is sequential code, so a
\* step that can be taken is taken
NextForever ==
    \/ ParseTarget
    \/ StartupCheck
    \/ ProbeForever
    \/ DecideForever
    \/ DeadNotify
    \/ DeadAdd
    \/ AliveNotify
    \/ AliveCheck
    \/ AliveRemove
    \/ AliveNotifyRemoved
    \/ Sleep

SpecForever == Init /\ [][NextForever]_vars /\ WF_vars(NextForever)

\* network_s31 alone, over a wide set of target strings
InitAddr == InitWith(AddrInputs)

NextAddr == ParseTarget

SpecAddr == InitAddr /\ [][NextAddr]_vars

\* ------------------------------------------------------------- properties
\* number of trailing elements of h equal to o
RECURSIVE Trailing(_, _)
Trailing(h, o) ==
    IF Len(h) = 0 \/ h[Len(h)] # o THEN 0
    ELSE 1 + Trailing(SubSeq(h, 1, Len(h) - 1), o)

Fired(e) == {i \in 1..Len(emits) : emits[i] = e}

LastEmit == IF Len(emits) = 0 THEN "none" ELSE emits[Len(emits)]

Ops(S) == {i \in 1..Len(events) : events[i].op \in S}

MatchingSeqnos(entries, prefix) ==
    {entries[i].seqno : i \in Matching(entries, prefix)}

DeadScenario == <<"U", "U", "R", "U", "U", "U">>

AliveScenario == <<"R", "U", "R", "R">>

\* C1: the dead branch is taken for an outcome exactly when wasAlive held
\* before it and it is the dampening-th consecutive Unreachable since the
\* last Reachable (or since startup); with dampening 3 and outcomes
\* U,U,R,U,U,U from Up it is taken once, for outcome 6.
C1_BecameDeadOnDthUnreachable ==
    /\ \A i \in 1..Len(emits) :
         (emits[i] = "BecameDead") <=>
            /\ upHist[i]
            /\ history[i] = "U"
            /\ Trailing(SubSeq(history, 1, i), "U") = dampening
    /\ (dampening = 3 /\ history = DeadScenario /\ upHist[1])
          => Fired("BecameDead") = {6}

C1_Witness ==
    /\ dampening = 3
    /\ history = DeadScenario
    /\ upHist[1]
    /\ emits[6] = "BecameDead"

\* C2: the resurrection branch is taken for an outcome exactly when wasAlive
\* was False before it and it is the dampening-th consecutive Reachable; with
\* dampening 2 and outcomes R,U,R,R from Down it is taken once, for outcome 4.
C2_BecameAliveOnDthReachable ==
    /\ \A i \in 1..Len(emits) :
         (emits[i] = "BecameAlive") <=>
            /\ ~upHist[i]
            /\ history[i] = "R"
            /\ Trailing(SubSeq(history, 1, i), "R") = dampening
    /\ (dampening = 2 /\ history = AliveScenario /\ ~upHist[1])
          => Fired("BecameAlive") = {4}

\* C3: for a target written from octets a,b,c,n in 0..255 network_s31
\* returns a.b.c.(n-1)/31 for odd n and a.b.c.n/31 for even n, so that
\* 10.0.0.5 and 10.0.0.4 both give 10.0.0.4/31.
C3_Subnet31 ==
    /\ octets # <<>> => pc \in {"start", "startup_check"}
    /\ (pc = "startup_check" /\ octets # <<>>) =>
         net31 = Dotted(octets[1], octets[2], octets[3],
                        octets[4] - (octets[4] % 2)) \o Slash31
    /\ (pc = "startup_check"
          /\ address \in { <<"1", "0", ".", "0", ".", "0", ".", "5">>,
                           <<"1", "0", ".", "0", ".", "0", ".", "4">> }) =>
         net31 = <<"1", "0", ".", "0", ".", "0", ".", "4", "/", "3", "1">>

C3_Witness ==
    /\ pc = "startup_check"
    /\ address = <<"1", "0", ".", "0", ".", "0", ".", "5">>
    /\ net31 = <<"1", "0", ".", "0", ".", "0", ".", "4", "/", "3", "1">>

Rejected == pc \in {"exit_ipv6", "exit_invalid"}

C5_EnsureFilteredIdempotent ==
    [][(pc = "dead_add" /\ pc' = "sleep"
          /\ Cardinality(Matching(prefixList, net31)) <= 1)
        => /\ Cardinality(Matching(prefixList', net31)) = 1
           /\ (Matching(prefixList, net31) # {} => prefixList' = prefixList)
           /\ Len(events) > 0
           /\ events[Len(events)].op = "list"]_vars

\* C6: in the resurrection branch a remove is issued only right after a
\* listing, at most once, with the sequence number of a listed entry whose
\* prefix is net31; when the listing has no such entry (or no list exists)
\* the branch ends without a remove and without an error.
C6_EnsureUnfiltered ==
    /\ \A i \in Ops({"remove"}) :
         /\ i > 1
         /\ events[i - 1].op = "list"
         /\ events[i].arg \in MatchingSeqnos(listing, net31)
    /\ Cardinality(Ops({"remove"})) <= 1
    /\ pc = "alive_remove" => seqno \in MatchingSeqnos(listing, net31)
    /\ (Ops({"list"}) # {} /\ LastEmit = "BecameAlive"
          /\ Matching(listing, net31) = {}) =>
         /\ Ops({"remove"}) = {}
         /\ pc \in {"sleep", "probe", "interrupted"}
    /\ (pc = "sleep" /\ LastEmit = "BecameAlive"
          /\ Matching(listing, net31) # {}) =>
         Cardinality(Ops({"remove"})) = 1

C6_Witness ==
    /\ Ops({"remove"}) # {}
    /\ \E i \in 1..Len(listing) : listing[i].prefix # net31
    /\ pc = "sleep"

\* C7: without out-of-band changes, once a transition has been handled the
\* list holds an entry for net31 after BecameDead and none after BecameAlive.
C7_StoreMatchesVerdict ==
    (extCount = 0 /\ pc = "sleep") =>
       /\ LastEmit = "BecameDead" => Matching(prefixList, net31) # {}
       /\ LastEmit = "BecameAlive" => Matching(prefixList, net31) = {}

\* C8: once the loop has processed an outcome, a failing rule-store call
\* does not end the process.
C8_StoreFailureNotFatal ==
    pc \in {"store_error", "exit_nosocket"} => history = <<>>

\* C9: no probe failure raises out of isAlive(): the loop is never ended by
\* the probe.
C9_ProbeFailureIsUnreachable ==
    pc # "probe_error"

\* C10: within an iteration every syslog message comes after a rule-store
\* call of that iteration.
C10_StoreBeforeNotify ==
    \A i \in Ops({"notify"}) :
       \E j \in Ops({"list", "insert", "remove"}) : j < i

\* C11: the process is never interrupted between deciding BecameDead and
\* issuing the insert, nor between listing a matching entry and issuing its
\* remove: an interrupt arriving there waits for the reconciliation to end.
C11_InterruptAfterReconciliation ==
    [][pc' = "interrupted" =>
         pc \notin {"dead_notify", "dead_add", "alive_remove"}]_vars

\* C12: when the startup listing holds an entry for net31, no insert is
\* issued (and the dead branch is not entered) as long as no BecameAlive has
\* been emitted.
C12_NoReAddAfterStartup ==
    (/\ pc \notin {"start", "startup_check"}
     /\ Matching(listing, net31) # {}
     /\ Fired("BecameAlive") = {}) =>
       /\ Ops({"insert"}) = {}
       /\ Fired("BecameDead") = {}
       /\ pc \notin {"dead_notify", "dead_add"}

C12_Witness ==
    /\ Matching(listing, net31) # {}
    /\ Fired("BecameAlive") = {}
    /\ Len(history) > dampening
    /\ \A i \in 1..Len(history) : history[i] = "U"
    /\ pc = "sleep"

\* The liveness states and transitions that follow from the outcomes alone:
\* threshold d, believed state up0 before the first outcome, outcomes h.
RECURSIVE OutcomeRun(_, _, _)
OutcomeRun(d, up0, h) ==
    IF Len(h) = 0
    THEN [up |-> up0, dd |-> 0, da |-> 0, ups |-> <<>>, ems |-> <<>>]
    ELSE LET p == OutcomeRun(d, up0, SubSeq(h, 1, Len(h) - 1))
             ups == Append(p.ups, p.up)
         IN  IF h[Len(h)] = "R"
             THEN IF ~p.up /\ p.da < d
                  THEN [up |-> p.up, dd |-> 0, da |-> p.da + 1, ups |-> ups,
                        ems |-> Append(p.ems, "none")]
                  ELSE IF ~p.up /\ p.da = d
                  THEN [up |-> TRUE, dd |-> 0, da |-> 0, ups |-> ups,
                        ems |-> Append(p.ems, "BecameAlive")]
                  ELSE [up |-> p.up, dd |-> 0, da |-> p.da, ups |-> ups,
                        ems |-> Append(p.ems, "none")]
             ELSE IF p.up /\ p.dd + 1 >= d
                  THEN [up |-> FALSE, dd |-> p.dd + 1, da |-> 0, ups |-> ups,
                        ems |-> Append(p.ems, "BecameDead")]
                  ELSE [up |-> p.up, dd |-> p.dd + 1, da |-> 0, ups |-> ups,
                        ems |-> Append(p.ems, "none")]

FollowsOutcomes(up0) ==
    LET r == OutcomeRun(dampening, up0, history)
    IN  upHist = r.ups /\ emits = r.ems

BeforeFirstOutcome == pc \in {"probe", "decide"} /\ history = <<>>

\* C13 as stated: wasAlive is True before the first probe, and the believed
\* states and transitions are those that follow from the outcomes alone,
\* starting from Up, whatever the rule store holds or returns.
C13_StateFromOutcomesOnly ==
    /\ BeforeFirstOutcome => wasAlive
    /\ FollowsOutcomes(TRUE)

\* C13 amended: before the first probe wasAlive is False exactly when the
\* startup listing holds an entry for net31; from then on the believed states
\* and transitions are those that follow from the outcomes alone.
C13_StateFromStartupAndOutcomes ==
    /\ BeforeFirstOutcome => (wasAlive <=> Matching(listing, net31) = {})
    /\ Len(history) > 0 => FollowsOutcomes(upHist[1])

C13_Witness ==
    /\ Len(history) > 0
    /\ ~upHist[1]
    /\ Fired("BecameAlive") # {}
    /\ Fired("BecameDead") # {}
    /\ pc = "sleep"

Count(S) == Cardinality(Ops(S))

Quiet(i) ==
    \/ upHist[i] /\ history[i] = "R"
    \/ upHist[i] /\ history[i] = "U"
         /\ Trailing(SubSeq(history, 1, i), "U") < dampening
    \/ ~upHist[i] /\ history[i] = "U"
    \/ ~upHist[i] /\ history[i] = "R"
         /\ Trailing(SubSeq(history, 1, i), "R") < dampening

QuietNow == Len(history) > 0 /\ Quiet(Len(history))

\* C15: startup issues a single list query and leaves the prefix list as it
\* is; an iteration whose outcome is one of the no-transition cases goes
\* straight to the sleep without any list, insert, remove or syslog call and
\* without changing the prefix list.
C15_SilentWithoutTransition ==
    [][/\ (pc = "startup_check" /\ pc' = "probe") =>
            /\ prefixList' = prefixList
            /\ events' = <<[op |-> "list", arg |-> 0]>>
       /\ (pc = "decide" /\ pc' # "interrupted" /\ QuietNow') =>
            /\ pc' = "sleep"
            /\ prefixList' = prefixList
       /\ QuietNow' =>
            /\ events' = <<>>
            /\ pc' \in {"sleep", "probe", "decide", "probe_error",
                        "interrupted"}]_vars

C15_Witness ==
    /\ pc = "sleep"
    /\ Len(history) >= 2
    /\ ~upHist[Len(history)] /\ history[Len(history)] = "U"
    /\ ~upHist[Len(history) - 1] /\ history[Len(history) - 1] = "R"
    /\ events = <<>>
    /\ prefixList # <<>>

LastOutcome == history[Len(history)]

\* C16: after an Unreachable outcome is processed dampeningAlive is 0 and a
\* believed state that was Down is still Down; after a Reachable outcome is
\* processed dampeningDead is 0.
C16_ContraryOutcomeResets ==
    Len(history) > 0 =>
       /\ LastOutcome = "U" =>
            /\ dampeningAlive = 0
            /\ ~upHist[Len(history)] => ~wasAlive
       /\ LastOutcome = "R" => dampeningDead = 0

C16_Witness ==
    /\ pc = "sleep"
    /\ dampening >= 2
    /\ Len(history) >= 3
    /\ LastOutcome = "U"
    /\ history[Len(history) - 1] = "R"
    /\ history[Len(history) - 2] = "R"
    /\ ~upHist[Len(history)]
    /\ ~upHist[Len(history) - 2]
    /\ dampeningAlive = 0

\* C17: both counters stay within 0..dampening.
C17_CountersBounded ==
    /\ dampeningAlive \in 0..dampening
    /\ dampeningDead \in 0..dampening

\* C18: with at most one entry for net31 at startup, no out-of-band edit and
\* no failing store call, before each probe and at each sleep the prefix list
\* holds an entry for net31 exactly when wasAlive is False, and never two.
C18_ListMirrorsBelief ==
    pc \in {"probe", "sleep"} =>
       /\ (Matching(prefixList, net31) # {}) <=> ~wasAlive
       /\ Cardinality(Matching(prefixList, net31)) <= 1

C18_Witness ==
    /\ pc = "sleep"
    /\ wasAlive
    /\ Matching(prefixList, net31) = {}
    /\ prefixList # <<>>
    /\ ~upHist[1]
    /\ LastEmit = "BecameAlive"

HoldsFilter == ~wasAlive /\ Matching(prefixList, net31) # {}

HoldsNoFilter == wasAlive /\ Matching(prefixList, net31) = {}

\* C19: if from some iteration on every probe is Unreachable, then eventually
\* wasAlive is False and the list holds the net31 entry for good; if from some
\* iteration on every probe is Reachable, then eventually wasAlive is True and
\* the list holds no net31 entry for good.
C19_Converges ==
    /\ <>[](pc \in LoopPcs /\ ~alive) => <>[]HoldsFilter
    /\ <>[](pc \in LoopPcs /\ alive) => <>[]HoldsNoFilter
====
